---------------------------- MODULE Spec2Model ----------------------------
(***************************************************************************)
(* Model of packages/cli/scripts/phonemize_server.py: the admission        *)
(* controller of Runtime (acquire_slot / release_slot / queue_snapshot     *)
(* around one threading.Condition) and the request handlers do_GET and     *)
(* do_POST, which ThreadingHTTPServer runs one thread per request.         *)
(*                                                                         *)
(* A step of a thread that touches no shared state is merged with the next *)
(* one; every step that takes the lock of the condition, waits on it or    *)
(* runs under it is a step of its own.                                     *)
(***************************************************************************)
EXTENDS Integers, FiniteSets, Sequences, TLC

\* ------------------------------------------------------------------ bounds
\* Number of request threads the server runs concurrently.
NumThreads == 3
\* Largest --max-inflight and --max-queue given on the command line.
MaxInflightArg == 2
MaxQueueArg == 2
\* queue_wait_seconds in clock ticks.
QueueWait == 1
\* max_payload_bytes, scaled down; declared lengths range over -1..MaxPayload+1.
MaxPayload == 1

\* Id sequences the decoder is explored on: every sequence of at most MaxLen ids
\* out of 0..MaxId, and the sample sequences.
MaxLen == 4
MaxId == 3

Threads == 1..NumThreads
NoThread == 0

Max2(a, b) == IF a >= b THEN a ELSE b

VARIABLES
    RUNTIME,               \* "None" before main() builds the Runtime, then "Runtime"
    max_inflight,          \* Runtime.max_inflight
    max_queue,             \* Runtime.max_queue
    forced_align_enabled,  \* Runtime.forced_align_enabled
    active,                \* Runtime._active
    queued,                \* Runtime._queued
    lock,                  \* owner of the lock of Runtime._cv, NoThread when free
    waiters,               \* threads in the waiter list of Runtime._cv
    pc,                    \* position of every request thread
    req,                   \* the request a thread serves
    remaining,             \* acquire_slot: deadline - time.time(), 0 once elapsed
    ret,                   \* the value acquire_slot returned: "none", "True", "False"
    acqExit,               \* the return statement acquire_slot left by: "now",
                           \* "busy", "timeout" or "wait"; forgotten once the
                           \* caller goes on with a granted slot
    grants,                \* number of slots granted to the request
    releases,              \* number of release_slot calls of the request
    snap,                  \* the dict queue_snapshot builds, <<active, queued>>
    exc,                   \* the exception do_POST's try block raised
    resp,                  \* the response the handler sent
    pred_ids,              \* phonemize_wav_bytes: the ids the model predicted
    collapsed,             \* phonemize_wav_bytes: ctc_collapse(pred_ids, blank_id)
    phones                 \* phonemize_wav_bytes: the tokens kept, out["phones"]

vars == <<RUNTIME, max_inflight, max_queue, forced_align_enabled, active, queued,
          lock, waiters, pc, req, remaining, ret, acqExit, grants, releases,
          snap, exc, resp, pred_ids, collapsed, phones>>

cfgVars == <<RUNTIME, max_inflight, max_queue, forced_align_enabled>>
ctlVars == <<active, queued, lock, waiters>>
decVars == <<pred_ids, collapsed, phones>>

\* ---------------------------------------------------------------- requests
NoReq == [method |-> "none", path |-> "none", content_length |-> 0]
NoResp == [status |-> 0, error |-> "none"]
NoSnap == <<-1, -1>>

GetRequests ==
    {[method |-> "GET", path |-> p, content_length |-> 0] : p \in {"/health", "/other"}}

PostRequests ==
    {[method |-> "POST", path |-> p, content_length |-> 0] :
         p \in {"/forced-align", "/other"}}
    \cup {[method |-> "POST", path |-> "/phonemize", content_length |-> n] :
              n \in (-1)..(MaxPayload + 1)}

\* a request with a method Handler defines no do_ method for
OtherRequests == {[method |-> "PUT", path |-> "/phonemize", content_length |-> 0]}

Response(status, error) == [status |-> status, error |-> error]

\* -------------------------------------------------------------------- Init
Init ==
    /\ RUNTIME = "None"
    /\ max_inflight \in {Max2(1, a) : a \in 0..MaxInflightArg}
    /\ max_queue \in {Max2(0, a) : a \in 0..MaxQueueArg}
    /\ forced_align_enabled = FALSE    \* CIRCUIT_BREAKER_FORCED_ALIGN is not set
    /\ active = 0
    /\ queued = 0
    /\ lock = NoThread
    /\ waiters = {}
    /\ pc = [t \in Threads |-> "idle"]
    /\ req = [t \in Threads |-> NoReq]
    /\ remaining = [t \in Threads |-> 0]
    /\ ret = [t \in Threads |-> "none"]
    /\ acqExit = [t \in Threads |-> "none"]
    /\ grants = [t \in Threads |-> 0]
    /\ releases = [t \in Threads |-> 0]
    /\ snap = [t \in Threads |-> NoSnap]
    /\ exc = [t \in Threads |-> "none"]
    /\ resp = [t \in Threads |-> NoResp]
    /\ pred_ids = [t \in Threads |-> <<>>]
    /\ collapsed = [t \in Threads |-> <<>>]
    /\ phones = [t \in Threads |-> <<>>]

\* main(): builds the Runtime, then serves.
main ==
    /\ RUNTIME = "None"
    /\ RUNTIME' = "Runtime"
    /\ UNCHANGED <<max_inflight, max_queue, forced_align_enabled, ctlVars, pc, req,
                   remaining, ret, acqExit, grants, releases, snap, exc, resp>>
    /\ UNCHANGED decVars

\* time passes: every running deadline comes one tick nearer
Tick ==
    /\ \E t \in Threads : remaining[t] > 0
    /\ remaining' = [t \in Threads |-> Max2(0, remaining[t] - 1)]
    /\ UNCHANGED <<cfgVars, ctlVars, pc, req, ret, acqExit, grants, releases,
                   snap, exc, resp>>
    /\ UNCHANGED decVars

\* ---------------------------------------------------------------- handlers
Finish(t, r) ==
    /\ resp' = [resp EXCEPT ![t] = r]
    /\ pc' = [pc EXCEPT ![t] = "done"]

\* BaseHTTPRequestHandler calls do_<method>; Handler defines do_GET and do_POST
\* only, and the base class answers every other method 501 without calling
\* into Handler.
handle_one_request(t) ==
    /\ RUNTIME = "Runtime"
    /\ pc[t] = "idle"
    /\ \E r \in OtherRequests :
          /\ req' = [req EXCEPT ![t] = r]
          /\ Finish(t, Response(501, "unsupported_method"))
    /\ UNCHANGED <<cfgVars, ctlVars, remaining, ret, acqExit, grants, releases,
                   snap, exc>>
    /\ UNCHANGED decVars

\* Handler.do_GET, up to the call of queue_snapshot. serve_forever starts after
\* main() has set RUNTIME, so no request meets RUNTIME = None.
do_GET(t) ==
    /\ RUNTIME = "Runtime"
    /\ pc[t] = "idle"
    /\ \E r \in GetRequests :
          /\ req' = [req EXCEPT ![t] = r]
          /\ IF r.path = "/health"
                THEN IF RUNTIME = "None"
                        THEN Finish(t, Response(503, "not_initialized"))
                        ELSE /\ pc' = [pc EXCEPT ![t] = "snap_lock"]
                             /\ UNCHANGED resp
                ELSE Finish(t, Response(404, "not_found"))
    /\ UNCHANGED <<cfgVars, ctlVars, remaining, ret, acqExit, grants, releases,
                   snap, exc>>
    /\ UNCHANGED decVars

\* Faulty variant: /forced-align is answered without looking at the flag.
do_POST_flagIgnored(t) ==
    /\ RUNTIME = "Runtime"
    /\ pc[t] = "idle"
    /\ \E r \in PostRequests :
          /\ req' = [req EXCEPT ![t] = r]
          /\ IF r.path = "/forced-align"
                THEN /\ Finish(t, Response(404, "forced_align_disabled"))
                     /\ UNCHANGED remaining
                ELSE IF r.path # "/phonemize"
                THEN /\ Finish(t, Response(404, "not_found"))
                     /\ UNCHANGED remaining
                ELSE IF r.content_length <= 0
                THEN /\ Finish(t, Response(400, "empty_body"))
                     /\ UNCHANGED remaining
                ELSE IF r.content_length > MaxPayload
                THEN /\ Finish(t, Response(413, "payload_too_large"))
                     /\ UNCHANGED remaining
                ELSE /\ pc' = [pc EXCEPT ![t] = "acq_lock"]
                     /\ remaining' = [remaining EXCEPT ![t] = QueueWait]
                     /\ UNCHANGED resp
    /\ UNCHANGED <<cfgVars, ctlVars, ret, acqExit, grants, releases, snap, exc>>
    /\ UNCHANGED decVars

\* Faulty variant: the declared length is compared with the limit only after
\* the slot has been taken, so an oversized request goes on to acquire_slot.
do_POST_lateLimit(t) ==
    /\ RUNTIME = "Runtime"
    /\ pc[t] = "idle"
    /\ \E r \in PostRequests :
          /\ req' = [req EXCEPT ![t] = r]
          /\ IF r.path = "/forced-align"
                THEN /\ IF ~forced_align_enabled
                           THEN Finish(t, Response(404, "forced_align_disabled"))
                           ELSE Finish(t, Response(501, "forced_align_not_implemented"))
                     /\ UNCHANGED remaining
                ELSE IF r.path # "/phonemize"
                THEN /\ Finish(t, Response(404, "not_found"))
                     /\ UNCHANGED remaining
                ELSE IF r.content_length <= 0
                THEN /\ Finish(t, Response(400, "empty_body"))
                     /\ UNCHANGED remaining
                ELSE /\ pc' = [pc EXCEPT ![t] = "acq_lock"]
                     /\ remaining' = [remaining EXCEPT ![t] = QueueWait]
                     /\ UNCHANGED resp
    /\ UNCHANGED <<cfgVars, ctlVars, ret, acqExit, grants, releases, snap, exc>>
    /\ UNCHANGED decVars

\* Handler.do_POST, up to acquire_slot's with statement; acquire_slot starts with
\* deadline = time.time() + max(0.1, self.queue_wait_seconds)
do_POST(t) ==
    /\ RUNTIME = "Runtime"
    /\ pc[t] = "idle"
    /\ \E r \in PostRequests :
          /\ req' = [req EXCEPT ![t] = r]
          /\ IF RUNTIME = "None"
                THEN /\ Finish(t, Response(503, "not_initialized"))
                     /\ UNCHANGED remaining
                ELSE IF r.path = "/forced-align"
                THEN /\ IF ~forced_align_enabled
                           THEN Finish(t, Response(404, "forced_align_disabled"))
                           ELSE Finish(t, Response(501, "forced_align_not_implemented"))
                     /\ UNCHANGED remaining
                ELSE IF r.path # "/phonemize"
                THEN /\ Finish(t, Response(404, "not_found"))
                     /\ UNCHANGED remaining
                ELSE IF r.content_length <= 0
                THEN /\ Finish(t, Response(400, "empty_body"))
                     /\ UNCHANGED remaining
                ELSE IF r.content_length > MaxPayload
                THEN /\ Finish(t, Response(413, "payload_too_large"))
                     /\ UNCHANGED remaining
                ELSE /\ pc' = [pc EXCEPT ![t] = "acq_lock"]
                     /\ remaining' = [remaining EXCEPT ![t] = QueueWait]
                     /\ UNCHANGED resp
    /\ UNCHANGED <<cfgVars, ctlVars, ret, acqExit, grants, releases, snap, exc>>
    /\ UNCHANGED decVars

\* ---------------------------------------------------- Runtime.queue_snapshot
\* Faulty variant: the counters are read without the lock.
queue_snapshot_lock_free(t) ==
    /\ pc[t] = "snap_lock"
    /\ pc' = [pc EXCEPT ![t] = "snap_active"]
    /\ UNCHANGED <<cfgVars, ctlVars, req, remaining, ret, acqExit, grants,
                   releases, snap, exc, resp>>
    /\ UNCHANGED decVars

\* with self._cv:
queue_snapshot_lock(t) ==
    /\ pc[t] = "snap_lock"
    /\ lock = NoThread
    /\ lock' = t
    /\ pc' = [pc EXCEPT ![t] = "snap_active"]
    /\ UNCHANGED <<cfgVars, active, queued, waiters, req, remaining, ret, acqExit,
                   grants, releases, snap, exc, resp>>
    /\ UNCHANGED decVars

\* the dict display evaluates self._active first ...
queue_snapshot_active(t) ==
    /\ pc[t] = "snap_active"
    /\ snap' = [snap EXCEPT ![t] = <<active, snap[t][2]>>]
    /\ pc' = [pc EXCEPT ![t] = "snap_queued"]
    /\ UNCHANGED <<cfgVars, ctlVars, req, remaining, ret, acqExit, grants,
                   releases, exc, resp>>
    /\ UNCHANGED decVars

\* ... then self._queued; the return leaves the with block, and do_GET sends
\* the pair in its 200 response.
queue_snapshot_queued(t) ==
    /\ pc[t] = "snap_queued"
    /\ snap' = [snap EXCEPT ![t] = <<snap[t][1], queued>>]
    /\ lock' = IF lock = t THEN NoThread ELSE lock
    /\ Finish(t, Response(200, "none"))
    /\ UNCHANGED <<cfgVars, active, queued, waiters, req, remaining, ret, acqExit,
                   grants, releases, exc>>
    /\ UNCHANGED decVars

\* ------------------------------------------------------ Runtime.acquire_slot
\* Faulty variant: the capacity test is off by one.
CanGrant_offByOne(a) == a <= max_inflight
CanGrant(a) == a < max_inflight
\* Faulty variant: the queue-room test is off by one.
QueueFull_offByOne(q) == q > max_queue
QueueFull(q) == q >= max_queue
\* Faulty variant: the finally block that gives the queue place back is missing.
DecQueued_forgotten(q) == q
DecQueued(q) == Max2(0, q - 1)
\* Faulty variant: release_slot notifies without giving the slot back.
DecActive_forgotten(a) == a
DecActive(a) == Max2(0, a - 1)

\* with self._cv:
acquire_slot_lock(t) ==
    /\ pc[t] = "acq_lock"
    /\ lock = NoThread
    /\ lock' = t
    /\ pc' = [pc EXCEPT ![t] = "acq_check"]
    /\ UNCHANGED <<cfgVars, active, queued, waiters, req, remaining, ret, acqExit,
                   grants, releases, snap, exc, resp>>
    /\ UNCHANGED decVars

\* acquire_slot returns v by the return statement named by exit, and the with
\* block is left.
AcquireReturn(t, v, exit) ==
    /\ ret' = [ret EXCEPT ![t] = v]
    /\ acqExit' = [acqExit EXCEPT ![t] = exit]
    /\ remaining' = [remaining EXCEPT ![t] = 0]
    /\ lock' = NoThread
    /\ pc' = [pc EXCEPT ![t] = "acq_ret"]

\* the admission decision
acquire_slot_check(t) ==
    /\ pc[t] = "acq_check"
    /\ IF CanGrant(active)
          THEN /\ active' = active + 1
               /\ grants' = [grants EXCEPT ![t] = @ + 1]
               /\ AcquireReturn(t, "True", "now")
               /\ UNCHANGED queued
          ELSE IF QueueFull(queued)
          THEN /\ AcquireReturn(t, "False", "busy")
               /\ UNCHANGED <<active, queued, grants>>
          ELSE /\ queued' = queued + 1
               /\ pc' = [pc EXCEPT ![t] = "wait_loop"]
               /\ UNCHANGED <<active, grants, ret, acqExit, remaining, lock>>
    /\ UNCHANGED <<cfgVars, waiters, req, releases, snap, exc, resp>>
    /\ UNCHANGED decVars

\* Faulty variant: the loop never looks at the deadline and waits again.
acquire_slot_loop_noDeadline(t) ==
    /\ pc[t] = "wait_loop"
    /\ waiters' = waiters \cup {t}
    /\ lock' = NoThread
    /\ pc' = [pc EXCEPT ![t] = "waiting"]
    /\ UNCHANGED <<cfgVars, active, queued, req, remaining, ret, acqExit, grants,
                   releases, snap, exc, resp>>
    /\ UNCHANGED decVars

\* Faulty variant: the waiting caller keeps the lock (a sleep in place of the wait).
acquire_slot_loop_keepsLock(t) ==
    /\ pc[t] = "wait_loop"
    /\ IF remaining[t] <= 0
          THEN /\ queued' = DecQueued(queued)
               /\ AcquireReturn(t, "False", "timeout")
               /\ UNCHANGED waiters
          ELSE /\ waiters' = waiters \cup {t}
               /\ pc' = [pc EXCEPT ![t] = "waiting"]
               /\ UNCHANGED <<queued, ret, acqExit, remaining, lock>>
    /\ UNCHANGED <<cfgVars, active, req, grants, releases, snap, exc, resp>>
    /\ UNCHANGED decVars

\* the head of the while loop: remaining = deadline - time.time(). A caller out
\* of time returns False through the finally block; another one calls
\* self._cv.wait(timeout=remaining), which enters the waiter list and gives up
\* the lock.
acquire_slot_loop(t) ==
    /\ pc[t] = "wait_loop"
    /\ IF remaining[t] <= 0
          THEN /\ queued' = DecQueued(queued)
               /\ AcquireReturn(t, "False", "timeout")
               /\ UNCHANGED waiters
          ELSE /\ waiters' = waiters \cup {t}
               /\ lock' = NoThread
               /\ pc' = [pc EXCEPT ![t] = "waiting"]
               /\ UNCHANGED <<queued, ret, acqExit, remaining>>
    /\ UNCHANGED <<cfgVars, active, req, grants, releases, snap, exc, resp>>
    /\ UNCHANGED decVars

\* Condition.wait: the timeout elapses with no notification; the caller stays in
\* the waiter list until it holds the lock again.
cv_wait_timeout(t) ==
    /\ pc[t] = "waiting"
    /\ remaining[t] = 0
    /\ pc' = [pc EXCEPT ![t] = "wake_lock"]
    /\ UNCHANGED <<cfgVars, ctlVars, req, remaining, ret, acqExit, grants,
                   releases, snap, exc, resp>>
    /\ UNCHANGED decVars

\* Condition.wait returns: the lock is taken again, and a caller that was not
\* notified leaves the waiter list.
cv_wait_return(t) ==
    /\ pc[t] = "wake_lock"
    /\ lock = NoThread
    /\ lock' = t
    /\ waiters' = waiters \ {t}
    /\ pc' = [pc EXCEPT ![t] = "recheck"]
    /\ UNCHANGED <<cfgVars, active, queued, req, remaining, ret, acqExit, grants,
                   releases, snap, exc, resp>>
    /\ UNCHANGED decVars

\* Faulty variant: a notified caller takes the slot without testing the capacity.
acquire_slot_recheck_trusting(t) ==
    /\ pc[t] = "recheck"
    /\ IF remaining[t] > 0 \/ CanGrant(active)
          THEN /\ active' = active + 1
               /\ grants' = [grants EXCEPT ![t] = @ + 1]
               /\ queued' = DecQueued(queued)
               /\ AcquireReturn(t, "True", "wait")
          ELSE /\ pc' = [pc EXCEPT ![t] = "wait_loop"]
               /\ UNCHANGED <<active, queued, grants, ret, acqExit, remaining, lock>>
    /\ UNCHANGED <<cfgVars, waiters, req, releases, snap, exc, resp>>
    /\ UNCHANGED decVars

\* after the wait: if self._active < self.max_inflight: grant, else loop
\* Faulty variant: after the wait the deadline is looked at before the slots, so
\* a caller out of time gives up although a slot is free.
acquire_slot_recheck_deadlineFirst(t) ==
    /\ pc[t] = "recheck"
    /\ IF remaining[t] <= 0
          THEN /\ queued' = DecQueued(queued)
               /\ AcquireReturn(t, "False", "timeout")
               /\ UNCHANGED <<active, grants>>
          ELSE IF CanGrant(active)
          THEN /\ active' = active + 1
               /\ grants' = [grants EXCEPT ![t] = @ + 1]
               /\ queued' = DecQueued(queued)
               /\ AcquireReturn(t, "True", "wait")
          ELSE /\ pc' = [pc EXCEPT ![t] = "wait_loop"]
               /\ UNCHANGED <<active, queued, grants, ret, acqExit, remaining, lock>>
    /\ UNCHANGED <<cfgVars, waiters, req, releases, snap, exc, resp>>
    /\ UNCHANGED decVars

acquire_slot_recheck(t) ==
    /\ pc[t] = "recheck"
    /\ IF CanGrant(active)
          THEN /\ active' = active + 1
               /\ grants' = [grants EXCEPT ![t] = @ + 1]
               /\ queued' = DecQueued(queued)
               /\ AcquireReturn(t, "True", "wait")
          ELSE /\ pc' = [pc EXCEPT ![t] = "wait_loop"]
               /\ UNCHANGED <<active, queued, grants, ret, acqExit, remaining, lock>>
    /\ UNCHANGED <<cfgVars, waiters, req, releases, snap, exc, resp>>
    /\ UNCHANGED decVars

\* ------------------------------------------------------ Runtime.release_slot
\* with self._cv:
release_slot_lock(t) ==
    /\ pc[t] = "rel_lock"
    /\ lock = NoThread
    /\ lock' = t
    /\ pc' = [pc EXCEPT ![t] = "rel_body"]
    /\ UNCHANGED <<cfgVars, active, queued, waiters, req, remaining, ret, acqExit,
                   grants, releases, snap, exc, resp>>
    /\ UNCHANGED decVars

\* Faulty variant: notify_all() in place of notify().
Notify_all(t, w) ==
    /\ waiters' = {}
    /\ pc' = [u \in Threads |->
                 IF u = t THEN "done"
                 ELSE IF u \in waiters /\ pc[u] = "waiting" THEN "wake_lock"
                 ELSE pc[u]]

\* self._cv.notify(): one thread of the waiter list, if there is any, is taken
\* off the list and woken; which one is left open. A thread whose wait has timed
\* out and that has not got the lock back is still on the list.
Notify(t, w) ==
    /\ waiters' = waiters \ {w}
    /\ pc' = [pc EXCEPT ![t] = "done",
                        ![w] = IF pc[w] = "waiting" THEN "wake_lock" ELSE pc[w]]

\* Faulty variant: the slot is given back without self._cv.notify().
release_slot_noNotify(t) ==
    /\ pc[t] = "rel_body"
    /\ active' = DecActive(active)
    /\ pc' = [pc EXCEPT ![t] = "done"]
    /\ releases' = [releases EXCEPT ![t] = @ + 1]
    /\ lock' = NoThread
    /\ UNCHANGED <<cfgVars, queued, waiters, req, remaining, ret, acqExit, grants,
                   snap, exc, resp>>
    /\ UNCHANGED decVars

release_slot(t) ==
    /\ pc[t] = "rel_body"
    /\ active' = DecActive(active)
    /\ IF waiters = {}
          THEN /\ pc' = [pc EXCEPT ![t] = "done"]
               /\ UNCHANGED waiters
          ELSE \E w \in waiters : Notify(t, w)
    /\ releases' = [releases EXCEPT ![t] = @ + 1]
    /\ lock' = NoThread
    /\ UNCHANGED <<cfgVars, queued, req, remaining, ret, acqExit, grants, snap, exc,
                   resp>>
    /\ UNCHANGED decVars

\* ---------------------------------------- Handler.do_POST after acquire_slot
\* Faulty variant: the overload answer carries another status.
do_POST_admitted_otherStatus(t) ==
    /\ pc[t] = "acq_ret"
    /\ IF ret[t] = "False"
          THEN Finish(t, Response(500, "queue_full_or_timeout"))
          ELSE /\ pc' = [pc EXCEPT ![t] = "read_body"]
               /\ UNCHANGED resp
    /\ acqExit' = [acqExit EXCEPT ![t] = IF ret[t] = "True" THEN "none" ELSE @]
    /\ UNCHANGED <<cfgVars, ctlVars, req, remaining, ret, grants, releases, snap,
                   exc>>
    /\ UNCHANGED decVars

\* Faulty variant: the value acquire_slot returns is not looked at.
do_POST_admitted_unchecked(t) ==
    /\ pc[t] = "acq_ret"
    /\ pc' = [pc EXCEPT ![t] = "read_body"]
    /\ acqExit' = [acqExit EXCEPT ![t] = IF ret[t] = "True" THEN "none" ELSE @]
    /\ UNCHANGED <<cfgVars, ctlVars, req, remaining, ret, grants, releases, snap,
                   exc, resp>>
    /\ UNCHANGED decVars

\* if not runtime.acquire_slot(): 503
do_POST_admitted(t) ==
    /\ pc[t] = "acq_ret"
    /\ IF ret[t] = "False"
          THEN Finish(t, Response(503, "queue_full_or_timeout"))
          ELSE /\ pc' = [pc EXCEPT ![t] = "read_body"]
               /\ UNCHANGED resp
    /\ acqExit' = [acqExit EXCEPT ![t] = IF ret[t] = "True" THEN "none" ELSE @]
    /\ UNCHANGED <<cfgVars, ctlVars, req, remaining, ret, grants, releases, snap,
                   exc>>
    /\ UNCHANGED decVars

\* A step of the try block: it goes on to the next position, or raises e, which
\* the except clause answers.
TryStep(t, from, to, e) ==
    /\ pc[t] = from
    /\ \E ok \in BOOLEAN :
          IF ok
             THEN /\ pc' = [pc EXCEPT ![t] = to]
                  /\ UNCHANGED exc
             ELSE /\ pc' = [pc EXCEPT ![t] = "send_err"]
                  /\ exc' = [exc EXCEPT ![t] = e]
    /\ UNCHANGED <<cfgVars, ctlVars, req, remaining, ret, acqExit, grants,
                   releases, snap, resp>>
    /\ UNCHANGED decVars

\* Faulty variant: a try / finally without the except block, so a failed read
\* goes to the release with no response attempted.
read_body_noExcept(t) ==
    /\ pc[t] = "read_body"
    /\ \E body \in {"bytes", "empty", "error"} :
          /\ pc' = [pc EXCEPT ![t] = CASE body = "bytes" -> "validate"
                                       [] body = "empty" -> "send_empty"
                                       [] OTHER -> "rel_lock"]
          /\ UNCHANGED exc
    /\ UNCHANGED <<cfgVars, ctlVars, req, remaining, ret, acqExit, grants,
                   releases, snap, resp>>
    /\ UNCHANGED decVars

\* body = self.rfile.read(content_length): some bytes, none, or an I/O error
read_body(t) ==
    /\ pc[t] = "read_body"
    /\ \E body \in {"bytes", "empty", "error"} :
          /\ pc' = [pc EXCEPT ![t] = CASE body = "bytes" -> "validate"
                                       [] body = "empty" -> "send_empty"
                                       [] OTHER -> "send_err"]
          /\ exc' = [exc EXCEPT ![t] = IF body = "error" THEN "read" ELSE @]
    /\ UNCHANGED <<cfgVars, ctlVars, req, remaining, ret, acqExit, grants,
                   releases, snap, resp>>
    /\ UNCHANGED decVars

\* ------------------------------------------------------------------ decoder
\* prev = None: no id seen yet
NoId == -1
\* blank_id = int(getattr(self.model.config, "pad_token_id", 0))
pad_token_id == 0

Ids == 0..MaxId
IdSeqs == UNION {[1..n -> Ids] : n \in 0..MaxLen}
SampleSeqs == {<<3, 0, 3>>, <<3, 3>>, <<3, 3, 0, 5, 5, 5, 0, 7>>, <<0, 0, 0>>,
               <<9, 4, 4, 6>>, <<1, 9, 2>>}

\* the vocabulary file: ids 3, 5, 7 are phones, ids above 7 are not in it
id_to_token(idx) ==
    CASE idx = 0 -> "<pad>"
      [] idx = 1 -> "<s>"
      [] idx = 2 -> "</s>"
      [] idx = 3 -> "a"
      [] idx = 4 -> "|"
      [] idx = 5 -> "b"
      [] idx = 6 -> "<unk>"
      [] idx = 7 -> "c"
      [] OTHER -> ""

special_tokens == {"<pad>", "<s>", "</s>", "<unk>", "|"}

\* Faulty variant: prev is the last id kept, so a blank does not reset it.
RECURSIVE ctc_loop_prevKept(_, _, _, _)
ctc_loop_prevKept(ids, blank_id, prev, acc) ==
    IF ids = <<>>
       THEN acc
       ELSE LET idx == Head(ids)
            IN IF idx = prev \/ idx = blank_id
                  THEN ctc_loop_prevKept(Tail(ids), blank_id, prev, acc)
                  ELSE ctc_loop_prevKept(Tail(ids), blank_id, idx, Append(acc, idx))

ctc_collapse_prevKept(ids, blank_id) == ctc_loop_prevKept(ids, blank_id, NoId, <<>>)

\* the for loop of ctc_collapse over the ids left, with prev and collapsed
RECURSIVE ctc_loop(_, _, _, _)
ctc_loop(ids, blank_id, prev, acc) ==
    IF ids = <<>>
       THEN acc
       ELSE LET idx == Head(ids)
            IN IF idx = prev
                  THEN ctc_loop(Tail(ids), blank_id, prev, acc)
                  ELSE IF idx = blank_id
                  THEN ctc_loop(Tail(ids), blank_id, idx, acc)
                  ELSE ctc_loop(Tail(ids), blank_id, idx, Append(acc, idx))

\* Faulty variant: prev starts as the first id, which is then taken for a repeat.
ctc_collapse_prevFirst(ids, blank_id) ==
    ctc_loop(ids, blank_id, IF ids = <<>> THEN NoId ELSE Head(ids), <<>>)

ctc_collapse(ids, blank_id) == ctc_loop(ids, blank_id, NoId, <<>>)

\* the loop over collapsed: tok = self.id_to_token.get(int(idx)); ids without a
\* token and special tokens are dropped
RECURSIVE phones_of(_)
phones_of(ids) ==
    IF ids = <<>>
       THEN <<>>
       ELSE LET tok == id_to_token(Head(ids))
            IN IF tok = "" \/ tok \in special_tokens
                  THEN phones_of(Tail(ids))
                  ELSE <<tok>> \o phones_of(Tail(ids))

\* What the model predicts for the requests of Spec: silence, or three phones.
InferOutputs == {<<0, 0, 0>>, <<3, 3, 0, 5, 5, 5, 0, 7>>}

\* phonemize_wav_bytes: read_wav_mono_16k_from_bytes
validate(t) == TryStep(t, "validate", "infer", "wav")

\* phonemize_wav_bytes: the feature extractor and the model, which may raise,
\* then pred_ids = torch.argmax(logits, dim=-1)[0].to("cpu").tolist()
infer(t) ==
    /\ pc[t] = "infer"
    /\ \/ /\ pc' = [pc EXCEPT ![t] = "send_err"]
          /\ exc' = [exc EXCEPT ![t] = "inference"]
          /\ UNCHANGED pred_ids
       \/ /\ \E ids \in InferOutputs : pred_ids' = [pred_ids EXCEPT ![t] = ids]
          /\ pc' = [pc EXCEPT ![t] = "decode"]
          /\ UNCHANGED exc
    /\ UNCHANGED <<cfgVars, ctlVars, req, remaining, ret, acqExit, grants,
                   releases, snap, resp, collapsed, phones>>

\* Faulty variant: the result is returned without looking at phones.
decode_noEmptyCheck(t) ==
    /\ pc[t] = "decode"
    /\ collapsed' = [collapsed EXCEPT ![t] = ctc_collapse(pred_ids[t], pad_token_id)]
    /\ phones' = [phones EXCEPT ![t] = phones_of(collapsed'[t])]
    /\ pc' = [pc EXCEPT ![t] = "send_ok"]
    /\ UNCHANGED <<cfgVars, ctlVars, req, remaining, ret, acqExit, grants,
                   releases, snap, resp, pred_ids, exc>>

\* phonemize_wav_bytes: collapse, map to tokens, raise RuntimeError("Empty phone
\* sequence") when no token is left, else return the dict with the phones
decode(t) ==
    /\ pc[t] = "decode"
    /\ collapsed' = [collapsed EXCEPT ![t] = ctc_collapse(pred_ids[t], pad_token_id)]
    /\ phones' = [phones EXCEPT ![t] = phones_of(collapsed'[t])]
    /\ IF phones'[t] = <<>>
          THEN /\ pc' = [pc EXCEPT ![t] = "send_err"]
               /\ exc' = [exc EXCEPT ![t] = "empty_phones"]
          ELSE /\ pc' = [pc EXCEPT ![t] = "send_ok"]
               /\ UNCHANGED exc
    /\ UNCHANGED <<cfgVars, ctlVars, req, remaining, ret, acqExit, grants,
                   releases, snap, resp, pred_ids>>

\* ---------------------------------------------------------- sending, release
\* The locals of phonemize_wav_bytes are gone once the handler has sent its
\* response or entered the except block; a 200 carries out["phones"].
Forget(f, t) == [f EXCEPT ![t] = <<>>]

\* A _send_json inside the try block: sent, or the write raises.
SendInTry(t, from, r) ==
    /\ pc[t] = from
    /\ \E ok \in BOOLEAN :
          IF ok
             THEN /\ resp' = [resp EXCEPT ![t] = r]
                  /\ pc' = [pc EXCEPT ![t] = "rel_lock"]
                  /\ UNCHANGED <<exc, phones>>
             ELSE /\ pc' = [pc EXCEPT ![t] = "send_err"]
                  /\ exc' = [exc EXCEPT ![t] = "send"]
                  /\ phones' = Forget(phones, t)
                  /\ UNCHANGED resp
    /\ pred_ids' = Forget(pred_ids, t)
    /\ collapsed' = Forget(collapsed, t)
    /\ UNCHANGED <<cfgVars, ctlVars, req, remaining, ret, acqExit, grants,
                   releases, snap>>

\* Faulty variant: the early return on an empty body skips the release.
send_empty_noRelease(t) ==
    /\ pc[t] = "send_empty"
    /\ Finish(t, Response(400, "empty_body"))
    /\ UNCHANGED <<cfgVars, ctlVars, req, remaining, ret, acqExit, grants,
                   releases, snap, exc>>
    /\ UNCHANGED decVars

send_empty(t) == SendInTry(t, "send_empty", Response(400, "empty_body"))
send_ok(t) == SendInTry(t, "send_ok", Response(200, "none"))

\* Faulty variant: release_slot follows the try statement instead of standing in
\* a finally block, so a write that raises in the except block skips it.
send_err_noFinally(t) ==
    /\ pc[t] = "send_err"
    /\ \E ok \in BOOLEAN :
          /\ resp' = [resp EXCEPT ![t] = IF ok THEN Response(400, exc[t]) ELSE @]
          /\ pc' = [pc EXCEPT ![t] = IF ok THEN "rel_lock" ELSE "done"]
    /\ exc' = [exc EXCEPT ![t] = "none"]
    /\ pred_ids' = Forget(pred_ids, t)
    /\ collapsed' = Forget(collapsed, t)
    /\ phones' = Forget(phones, t)
    /\ UNCHANGED <<cfgVars, ctlVars, req, remaining, ret, acqExit, grants,
                   releases, snap>>

\* except Exception as exc: self._send_json(400, str(exc)); a write that raises
\* here leaves do_POST through the finally block.
send_err(t) ==
    /\ pc[t] = "send_err"
    /\ \E ok \in BOOLEAN :
          resp' = [resp EXCEPT ![t] = IF ok THEN Response(400, exc[t]) ELSE @]
    /\ exc' = [exc EXCEPT ![t] = "none"]
    /\ pc' = [pc EXCEPT ![t] = "rel_lock"]
    /\ pred_ids' = Forget(pred_ids, t)
    /\ collapsed' = Forget(collapsed, t)
    /\ phones' = Forget(phones, t)
    /\ UNCHANGED <<cfgVars, ctlVars, req, remaining, ret, acqExit, grants,
                   releases, snap>>

Handler(t) ==
    \/ handle_one_request(t)
    \/ do_GET(t)
    \/ queue_snapshot_lock(t)
    \/ queue_snapshot_active(t)
    \/ queue_snapshot_queued(t)
    \/ do_POST(t)
    \/ acquire_slot_lock(t)
    \/ acquire_slot_check(t)
    \/ acquire_slot_loop(t)
    \/ cv_wait_timeout(t)
    \/ cv_wait_return(t)
    \/ acquire_slot_recheck(t)
    \/ do_POST_admitted(t)
    \/ read_body(t)
    \/ validate(t)
    \/ infer(t)
    \/ decode(t)
    \/ send_empty(t)
    \/ send_ok(t)
    \/ send_err(t)
    \/ release_slot_lock(t)
    \/ release_slot(t)

Next == main \/ Tick \/ \E t \in Threads : Handler(t)

Spec == Init /\ [][Next]_vars

\* The server started with or without CIRCUIT_BREAKER_FORCED_ALIGN=1, with one
\* slot and one place in the queue.
InitForcedAlign ==
    /\ RUNTIME = "None"
    /\ max_inflight = Max2(1, 1)
    /\ max_queue = Max2(0, 1)
    /\ forced_align_enabled \in BOOLEAN
    /\ active = 0
    /\ queued = 0
    /\ lock = NoThread
    /\ waiters = {}
    /\ pc = [t \in Threads |-> "idle"]
    /\ req = [t \in Threads |-> NoReq]
    /\ remaining = [t \in Threads |-> 0]
    /\ ret = [t \in Threads |-> "none"]
    /\ acqExit = [t \in Threads |-> "none"]
    /\ grants = [t \in Threads |-> 0]
    /\ releases = [t \in Threads |-> 0]
    /\ snap = [t \in Threads |-> NoSnap]
    /\ exc = [t \in Threads |-> "none"]
    /\ resp = [t \in Threads |-> NoResp]
    /\ pred_ids = [t \in Threads |-> <<>>]
    /\ collapsed = [t \in Threads |-> <<>>]
    /\ phones = [t \in Threads |-> <<>>]

ForcedAlignSpec == InitForcedAlign /\ [][Next]_vars

\* The decoder on its own: thread 1 holds the slot and the model has just
\* returned some id sequence; the request is then decoded, answered and released.
InitDecode ==
    /\ RUNTIME = "Runtime"
    /\ max_inflight = Max2(1, 1)
    /\ max_queue = Max2(0, 1)
    /\ forced_align_enabled = FALSE
    /\ active = 1
    /\ queued = 0
    /\ lock = NoThread
    /\ waiters = {}
    /\ pc = [t \in Threads |-> IF t = 1 THEN "decode" ELSE "idle"]
    /\ req = [t \in Threads |->
                 IF t = 1 THEN [method |-> "POST", path |-> "/phonemize",
                                content_length |-> MaxPayload]
                          ELSE NoReq]
    /\ remaining = [t \in Threads |-> 0]
    /\ ret = [t \in Threads |-> IF t = 1 THEN "True" ELSE "none"]
    /\ acqExit = [t \in Threads |-> "none"]
    /\ grants = [t \in Threads |-> IF t = 1 THEN 1 ELSE 0]
    /\ releases = [t \in Threads |-> 0]
    /\ snap = [t \in Threads |-> NoSnap]
    /\ exc = [t \in Threads |-> "none"]
    /\ resp = [t \in Threads |-> NoResp]
    /\ \E ids \in IdSeqs \cup SampleSeqs :
          pred_ids = [t \in Threads |-> IF t = 1 THEN ids ELSE <<>>]
    /\ collapsed = [t \in Threads |-> <<>>]
    /\ phones = [t \in Threads |-> <<>>]

DecodeNext ==
    \E t \in Threads :
       \/ decode(t)
       \/ send_ok(t)
       \/ send_err(t)
       \/ release_slot_lock(t)
       \/ release_slot(t)

DecodeSpec == InitDecode /\ [][DecodeNext]_vars

\* A step of acquire_slot by thread t, from taking the lock to the return.
AcquireStep(t) ==
    \/ acquire_slot_lock(t)
    \/ acquire_slot_check(t)
    \/ acquire_slot_loop(t)
    \/ cv_wait_timeout(t)
    \/ cv_wait_return(t)
    \/ acquire_slot_recheck(t)

\* A step of the other critical sections, which thread t runs holding the lock.
LockHolderStep(t) ==
    \/ queue_snapshot_active(t)
    \/ queue_snapshot_queued(t)
    \/ release_slot(t)

\* Time advances, a thread that holds the lock leaves its critical section, and
\* a thread that asks for the lock again and again gets it. Nothing is assumed
\* about the pipeline, about releases being called or about arrivals.
\* The liveness graph is built for the default controller of one slot, with one
\* place in the queue: the third thread is the newly arriving caller.
InitFair ==
    /\ Init
    /\ max_inflight = 1
    /\ max_queue = 1

FairSpec ==
    /\ InitFair
    /\ [][Next]_vars
    /\ WF_vars(Tick)
    /\ \A t \in Threads : WF_vars(LockHolderStep(t))
    /\ \A t \in Threads : SF_vars(AcquireStep(t))

\* The same fairness for a controller of one slot whose queue holds one or two
\* callers: with two places, two callers can wait for the slot of the third.
InitFairQueue ==
    /\ Init
    /\ max_inflight = 1
    /\ max_queue \in {1, 2}

FairQueueSpec ==
    /\ InitFairQueue
    /\ [][Next]_vars
    /\ WF_vars(Tick)
    /\ \A t \in Threads : WF_vars(LockHolderStep(t))
    /\ \A t \in Threads : SF_vars(AcquireStep(t))

\* ------------------------------------------------------------------ claims
\* Positions at which a request holds a granted slot: from acquire_slot's return
\* of True to the end of release_slot.
HoldingPcs == {"read_body", "validate", "infer", "decode", "send_ok", "send_empty",
               "send_err", "rel_lock", "rel_body"}
\* Positions inside phonemize_wav_bytes.
PipelinePcs == {"validate", "infer", "decode"}
\* Positions of a caller that has entered the wait queue and not returned.
QueuedPcs == {"wait_loop", "waiting", "wake_lock", "recheck"}
\* Positions at which a thread owns the lock of the condition.
CriticalPcs == {"snap_active", "snap_queued", "acq_check", "wait_loop", "recheck",
                "rel_body"}

Holders == {t \in Threads : pc[t] \in HoldingPcs \/ (pc[t] = "acq_ret" /\ ret[t] = "True")}

\* C1: in every reachable state 0 <= active <= max_inflight and
\* 0 <= queued <= max_queue, for every max_inflight >= 1 and max_queue >= 0.
C1_CountersInRange ==
    /\ max_inflight >= 1
    /\ max_queue >= 0
    /\ 0 <= active /\ active <= max_inflight
    /\ 0 <= queued /\ queued <= max_queue

\* a caller arrives at a controller with every slot and every queue place taken
C1_Witness ==
    /\ active = max_inflight
    /\ queued = max_queue
    /\ max_queue >= 1
    /\ \E t \in Threads : pc[t] = "acq_check"

\* C2: phonemize_wav_bytes runs only in a request that holds a granted slot, the
\* requests between a granted acquire_slot and their release_slot are at most
\* max_inflight, and with max_inflight = 1 no two requests are in the pipeline.
C2_PipelineHoldsSlot ==
    /\ \A t \in Threads :
          pc[t] \in HoldingPcs =>
              /\ ret[t] = "True"
              /\ grants[t] = 1
              /\ releases[t] = 0
    /\ Cardinality(Holders) <= max_inflight
    /\ max_inflight = 1 =>
          Cardinality({t \in Threads : pc[t] \in PipelinePcs}) <= 1

\* every slot is held by a request inside phonemize_wav_bytes
C2_Witness ==
    /\ max_inflight = 2
    /\ Cardinality({t \in Threads : pc[t] = "infer"}) = 2
    /\ \E t \in Threads : pc[t] = "waiting"

\* C3: a request calls release_slot once if acquire_slot granted it a slot, on
\* every exit path, and never if acquire_slot returned False or the request was
\* rejected before admission.
C3_ReleaseMatchesGrant ==
    \A t \in Threads :
        /\ releases[t] <= grants[t]
        /\ grants[t] <= 1
        /\ grants[t] = 1 <=> ret[t] = "True"
        /\ pc[t] = "done" => releases[t] = grants[t]

\* finished requests of every exit path: the empty body, a response that could
\* not be sent, and a rejection by the controller
C3_Witness ==
    \E t1, t2, t3 \in Threads :
        /\ pc[t1] = "done" /\ resp[t1] = Response(400, "empty_body") /\ releases[t1] = 1
        /\ pc[t2] = "done" /\ resp[t2] = NoResp /\ releases[t2] = 1
        /\ pc[t3] = "done" /\ ret[t3] = "False" /\ releases[t3] = 0


\* C4: the admission decision is made under the lock on the state it observes:
\* with active < max_inflight the caller is granted at once, also when others
\* are queued; otherwise with queued >= max_queue it is turned away at once and
\* nothing changes; otherwise queued grows by one and the caller waits. So at
\* most max_inflight callers are granted before any release, and with
\* max_queue = 0 nobody waits.
C4_Decision(t) ==
    pc[t] = "acq_check" /\ pc'[t] # "acq_check" =>
        /\ lock = t
        /\ IF active < max_inflight
              THEN /\ active' = active + 1
                   /\ queued' = queued
                   /\ pc'[t] = "acq_ret" /\ ret'[t] = "True"
              ELSE IF queued >= max_queue
              THEN /\ active' = active
                   /\ queued' = queued
                   /\ pc'[t] = "acq_ret" /\ ret'[t] = "False"
              ELSE /\ active' = active
                   /\ queued' = queued + 1
                   /\ pc'[t] = "wait_loop"

C4_Consequences ==
    /\ (\A t \in Threads : releases[t] = 0) =>
           Cardinality({t \in Threads : grants[t] >= 1}) <= max_inflight
    /\ max_queue = 0 => \A t \in Threads : pc[t] \notin QueuedPcs

\* C4: every admission decision is the one above, with its two consequences.
C4_AdmissionDecision ==
    /\ [][\A t \in Threads : C4_Decision(t)]_vars
    /\ []C4_Consequences

\* a caller was granted at once while another caller was queued
C4_Witness ==
    \E t, w \in Threads :
        /\ pc[t] = "acq_ret" /\ acqExit[t] = "now"
        /\ pc[w] \in QueuedPcs
        /\ queued >= 1

\* C5: a caller in the wait queue whose deadline has elapsed and that finds no
\* slot free returns False by the timeout exit, leaves active as it is and takes
\* exactly one off queued, which leaves the number of the other queued callers.
C5_Timeout(t) ==
    pc[t] = "wait_loop" /\ pc'[t] = "acq_ret" =>
        /\ remaining[t] = 0
        /\ active = max_inflight
        /\ ret'[t] = "False" /\ acqExit'[t] = "timeout"
        /\ active' = active
        /\ grants' = grants
        /\ queued >= 1
        /\ queued' = queued - 1
        /\ queued' = Cardinality({u \in Threads \ {t} : pc[u] \in QueuedPcs})

\* C5: every timeout exit gives back exactly the caller's own queue place.
C5_TimeoutRestoresQueued == [][\A t \in Threads : C5_Timeout(t)]_vars

\* a caller has timed out in the queue while another caller stays queued
C5_Witness ==
    \E t, u \in Threads :
        /\ pc[t] = "acq_ret" /\ acqExit[t] = "timeout"
        /\ pc[u] = "waiting"
        /\ queued = 1


Overload == Response(503, "queue_full_or_timeout")

\* C6 as stated: the full queue and the timeout are distinct outcomes of
\* acquire_slot, which the caller can tell apart and which the server answers
\* with different responses.
C6_Original ==
    \A t1, t2 \in Threads :
        /\ pc[t1] = "done" /\ acqExit[t1] = "busy"
        /\ pc[t2] = "done" /\ acqExit[t2] = "timeout"
        => /\ ret[t1] # ret[t2]
           /\ resp[t1] # resp[t2]

\* C6 as amended: the full queue and the timeout are two exits of acquire_slot
\* that both return False, and do_POST answers both with the same 503
\* queue_full_or_timeout, which no other request gets.
C6_OverloadIsOneSignal ==
    \A t \in Threads :
        /\ acqExit[t] \in {"busy", "timeout"} =>
              /\ ret[t] = "False"
              /\ pc[t] \in {"acq_ret", "done"}
              /\ pc[t] = "done" => resp[t] = Overload
        /\ acqExit[t] \in {"now", "wait"} => ret[t] = "True"
        /\ resp[t] = Overload => acqExit[t] \in {"busy", "timeout"}

\* one request turned away by the full queue and one by the timeout, both answered
C6_Witness ==
    \E t1, t2 \in Threads :
        /\ pc[t1] = "done" /\ acqExit[t1] = "busy" /\ resp[t1] = Overload
        /\ pc[t2] = "done" /\ acqExit[t2] = "timeout" /\ resp[t2] = Overload

\* C7: release_slot takes one off active, or leaves it at 0, never changes
\* queued, and wakes at most one waiting caller, none when nobody waits; a
\* notification is not kept for a caller that waits later.
Woken == {w \in Threads : pc[w] = "waiting" /\ pc'[w] = "wake_lock"}

C7_Release(t) ==
    pc[t] = "rel_body" /\ pc'[t] = "done" =>
        /\ active' = (IF active > 0 THEN active - 1 ELSE 0)
        /\ queued' = queued
        /\ waiters' \subseteq waiters
        /\ Cardinality(waiters \ waiters') <= 1
        /\ Cardinality(Woken) <= 1
        /\ Woken \subseteq (waiters \ waiters')
        /\ \A u \in Threads \ (Woken \cup {t}) : pc'[u] = pc[u]

C7_NoMemory(w) ==
    /\ pc[w] = "waiting" /\ pc'[w] = "wake_lock" =>
          \/ remaining[w] = 0
          \/ \E t \in Threads : pc[t] = "rel_body" /\ pc'[t] = "done" /\ w \in waiters
    /\ pc[w] = "wait_loop" /\ pc'[w] \notin {"wait_loop", "acq_ret"} =>
          pc'[w] = "waiting" /\ w \in waiters'

\* C7: every release_slot decrements active, keeps queued and wakes at most one.
C7_ReleaseSlot ==
    [][(\A t \in Threads : C7_Release(t)) /\ (\A w \in Threads : C7_NoMemory(w))]_vars

\* a release has woken one of two waiting callers before its deadline
C7_Witness ==
    \E t, w, w2 \in Threads :
        /\ pc[t] = "done" /\ releases[t] = 1
        /\ pc[w] = "wake_lock" /\ w \notin waiters /\ remaining[w] > 0
        /\ pc[w2] = "waiting" /\ w2 \in waiters

\* C8: a caller that wakes up, notified or timed out, tests the capacity again
\* under the lock: it is granted only if active < max_inflight, and otherwise
\* active stays and the caller goes back to the head of the loop, where it waits
\* again or times out.
C8_Recheck(t) ==
    /\ pc[t] = "recheck" /\ pc'[t] # "recheck" =>
          /\ lock = t
          /\ IF active < max_inflight
                THEN /\ active' = active + 1
                     /\ queued' = queued - 1
                     /\ pc'[t] = "acq_ret" /\ ret'[t] = "True"
                ELSE /\ active' = active
                     /\ queued' = queued
                     /\ grants' = grants
                     /\ pc'[t] = "wait_loop"
    /\ pc[t] = "wait_loop" /\ pc'[t] # "wait_loop" =>
          /\ active' = active
          /\ grants' = grants
          /\ \/ pc'[t] = "waiting"
             \/ pc'[t] = "acq_ret" /\ ret'[t] = "False"

\* C8: every wakeup tests the capacity again before it grants.
C8_WakeupRevalidates == [][\A t \in Threads : C8_Recheck(t)]_vars

\* a notified caller finds the freed slot taken by a caller that arrived later
C8_Witness ==
    \E t, u \in Threads :
        /\ pc[t] = "recheck" /\ remaining[t] > 0
        /\ active = max_inflight
        /\ pc[u] \in HoldingPcs /\ releases[u] = 0
        /\ \E v \in Threads : pc[v] = "done" /\ releases[v] = 1

\* C9: queue_snapshot changes neither counter and wakes nobody, and the pair it
\* returns is the pair (active, queued) of the state it returns in.
SnapPcs == {"snap_lock", "snap_active", "snap_queued"}

C9_Step(t) ==
    pc[t] \in SnapPcs /\ pc'[t] # pc[t] =>
        /\ active' = active
        /\ queued' = queued
        /\ waiters' = waiters
        /\ \A u \in Threads \ {t} : pc'[u] = pc[u]
        /\ pc[t] = "snap_queued" =>
              /\ snap'[t] = <<active, queued>>
              /\ resp'[t] = Response(200, "none")

\* C9: every queue_snapshot is read-only and returns one state's pair.
C9_SnapshotIsConsistent == [][\A t \in Threads : C9_Step(t)]_vars

\* a health request has answered with the counters of a saturated controller
C9_Witness ==
    \E t \in Threads :
        /\ pc[t] = "done" /\ req[t].path = "/health"
        /\ max_queue >= 1
        /\ snap[t] = <<max_inflight, max_queue>>

\* C10: the lock of the condition is owned only by a thread inside one of the
\* short critical sections, whose next step needs nothing from any other thread
\* or from the clock; a caller that waits for a slot or runs the pipeline never
\* owns it, so a health request gets the lock without waiting for a release or
\* a timeout.
C10_HealthNeverBlocks ==
    /\ lock \in Threads \cup {NoThread}
    /\ \A t \in Threads :
          /\ lock = t => pc[t] \in CriticalPcs /\ ENABLED Handler(t)
          /\ pc[t] \in CriticalPcs => lock = t
          /\ pc[t] = "snap_lock" /\ lock = NoThread => ENABLED queue_snapshot_lock(t)

\* a health request reads the counters while every slot is held and a caller is
\* blocked in the full wait queue
C10_Witness ==
    \E h, w \in Threads :
        /\ pc[h] = "snap_queued"
        /\ pc[w] = "waiting"
        /\ active = max_inflight
        /\ queued = max_queue
        /\ Cardinality({t \in Threads : pc[t] \in PipelinePcs}) = max_inflight


\* Positions inside acquire_slot, before its return.
AcquirePcs == {"acq_lock", "acq_check"} \cup QueuedPcs

\* C11: every call of acquire_slot returns (granted, Busy or Timeout) when time
\* advances and the lock is scheduled fairly, even if no slot is ever released
\* and even if every freed slot goes to a newly arriving caller.
C11_AcquireReturns ==
    \A t \in Threads : (pc[t] \in AcquirePcs) ~> (pc[t] = "acq_ret")

\* a caller has left the wait queue by timeout while no slot was ever released
C11_Witness ==
    /\ \E t \in Threads : pc[t] = "acq_ret" /\ acqExit[t] = "timeout"
    /\ \A u \in Threads : releases[u] = 0

\* The three rejections do_POST makes of a /phonemize request by itself.
EarlyRejections ==
    {Response(503, "not_initialized"), Response(400, "empty_body"),
     Response(413, "payload_too_large")}

\* thread t takes a POST /phonemize request in this step
C12_Arrives(t) ==
    /\ pc[t] = "idle"
    /\ pc'[t] # "idle"
    /\ req'[t].method = "POST"
    /\ req'[t].path = "/phonemize"

C12_Step(t) ==
    /\ C12_Arrives(t) /\ req'[t].content_length <= 0
          => pc'[t] = "done" /\ resp'[t] = Response(400, "empty_body")
    /\ C12_Arrives(t) /\ req'[t].content_length > MaxPayload
          => pc'[t] = "done" /\ resp'[t] = Response(413, "payload_too_large")
    /\ C12_Arrives(t) /\ pc'[t] = "done"
          => /\ resp'[t] \in EarlyRejections
             /\ UNCHANGED ctlVars
             /\ ret'[t] = "none" /\ grants'[t] = 0
    /\ pc[t] = "read_body" /\ pc'[t] # "read_body"
          => /\ ret[t] = "True"
             /\ grants[t] = 1 /\ releases[t] = 0
             /\ active >= 1

\* C12: a POST /phonemize rejected as not_initialized, as empty_body by its
\* declared length or as payload_too_large is answered in the step that takes
\* the request, before acquire_slot and before the body is read, with active,
\* queued, the lock and the waiters untouched; the body is read only by a
\* request that holds a granted slot.
C12_RejectedBeforeAcquire == [][\A t \in Threads : C12_Step(t)]_vars

\* an oversized request has been turned away while another request, holding the
\* only slot taken, is about to read its body
C12_Witness ==
    \E t, u \in Threads :
       /\ pc[t] = "done" /\ resp[t] = Response(413, "payload_too_large")
       /\ ret[t] = "none"
       /\ pc[u] = "read_body"
       /\ active = 1

\* thread t takes a POST /forced-align request in this step
C13_Arrives(t) ==
    /\ pc[t] = "idle"
    /\ pc'[t] # "idle"
    /\ req'[t].method = "POST"
    /\ req'[t].path = "/forced-align"

C13_Step(t) ==
    C13_Arrives(t)
       => /\ pc'[t] = "done"
          /\ resp'[t] = IF forced_align_enabled
                            THEN Response(501, "forced_align_not_implemented")
                            ELSE Response(404, "forced_align_disabled")
          /\ UNCHANGED ctlVars
          /\ ret'[t] = "none" /\ grants'[t] = 0 /\ releases'[t] = 0

\* C13: every POST /forced-align is answered 404 forced_align_disabled with the
\* flag off and 501 forced_align_not_implemented with the flag on, whatever the
\* state of the controller, and the answer leaves active, queued, the lock and
\* the waiters as they were.
C13_ForcedAlign == [][\A t \in Threads : C13_Step(t)]_vars

\* with the flag on, a /forced-align request has been answered 501 while the
\* slot and the queue place were both taken
C13_Witness ==
    /\ forced_align_enabled
    /\ active = max_inflight
    /\ queued = max_queue
    /\ \E t \in Threads :
          /\ pc[t] = "done"
          /\ req[t].path = "/forced-align"
          /\ resp[t] = Response(501, "forced_align_not_implemented")

\* The three routes the server names.
Routes == {<<"GET", "/health">>, <<"POST", "/phonemize">>, <<"POST", "/forced-align">>}

\* C14: any request whose method and path are not GET /health, POST /phonemize
\* or POST /forced-align has been answered 404 not_found once its handler is
\* done, in every state of the server.
C14_NotFound ==
    \A t \in Threads :
       pc[t] = "done" /\ <<req[t].method, req[t].path>> \notin Routes
          => resp[t] = Response(404, "not_found")

\* Positions at which the handler writes a response for a granted request.
SendPcs == {"send_ok", "send_empty", "send_err"}

\* thread t moves to position p in this step
C15_Enters(t, p) == pc[t] # p /\ pc'[t] = p

C15_Step(t) ==
    /\ C15_Enters(t, "read_body") => pc[t] = "acq_ret" /\ ret[t] = "True"
    /\ C15_Enters(t, "validate") => pc[t] = "read_body"
    /\ C15_Enters(t, "infer") => pc[t] = "validate"
    /\ C15_Enters(t, "decode") => pc[t] = "infer"
    /\ C15_Enters(t, "send_ok") => pc[t] = "decode" /\ phones'[t] # <<>>
    /\ resp'[t] # resp[t] /\ resp'[t].status = 200 /\ req[t].path = "/phonemize"
          => pc[t] = "send_ok" /\ phones[t] # <<>>
    /\ C15_Enters(t, "rel_lock")
          => /\ pc[t] \in SendPcs
             /\ resp'[t].status \in {0, 200, 400}
             /\ active >= 1 /\ releases[t] = 0
    /\ C15_Enters(t, "rel_body") => pc[t] = "rel_lock"
    /\ releases'[t] # releases[t] => pc[t] = "rel_body" /\ pc'[t] = "done"

\* C15: a granted request goes acquire, read body, validate, inference, decode,
\* send, release in this order; release_slot is entered only from a position
\* that has sent the response (200 or 400) or failed to send it, and a 200 is
\* sent only from the position decoding reaches with a non-empty phone list.
C15_PipelineOrder == [][\A t \in Threads : C15_Step(t)]_vars

\* a request has gone through the whole pipeline: 200 sent, slot released
C15_Witness ==
    \E t \in Threads :
       /\ pc[t] = "done"
       /\ resp[t] = Response(200, "none")
       /\ req[t].path = "/phonemize"
       /\ phones[t] = <<"a", "b", "c">>
       /\ grants[t] = 1 /\ releases[t] = 1

\* Positions of ids the claim keeps: not the blank, and not equal to the raw id
\* just before (the first position has none before it).
KeptPositions(ids, b) ==
    {i \in 1..Len(ids) : ids[i] # b /\ (i = 1 \/ ids[i] # ids[i - 1])}

\* The subsequence of ids at the positions P, in the order of ids.
SubsequenceAt(ids, P) ==
    [k \in 1..Cardinality(P) |->
        ids[CHOOSE i \in P : Cardinality({j \in P : j < i}) = k - 1]]

\* Every id that occurs in the sequences explored, as a candidate blank.
BlankIds == Ids \cup {5, 7, 9}

\* thread t is past the loops of phonemize_wav_bytes and still has its locals
Decoded(t) == pc[t] = "send_ok" \/ (pc[t] = "send_err" /\ exc[t] = "empty_phones")

\* C16: ctc_collapse(ids, b) is the subsequence of ids at the positions whose id
\* is not b and differs from the raw id just before it, for every b; what
\* phonemize_wav_bytes collapsed is that subsequence for the blank id, holds no
\* blank, and is [3,3] for [3,0,3], [3] for [3,3], [3,5,7] for [3,3,0,5,5,5,0,7].
C16_CollapseKeepsSubsequence ==
    \A t \in Threads :
       /\ \A b \in BlankIds :
             ctc_collapse(pred_ids[t], b) =
                SubsequenceAt(pred_ids[t], KeptPositions(pred_ids[t], b))
       /\ Decoded(t) =>
             /\ collapsed[t] = SubsequenceAt(pred_ids[t],
                                             KeptPositions(pred_ids[t], pad_token_id))
             /\ \A i \in 1..Len(collapsed[t]) : collapsed[t][i] # pad_token_id
             /\ pred_ids[t] = <<3, 0, 3>> => collapsed[t] = <<3, 3>>
             /\ pred_ids[t] = <<3, 3>> => collapsed[t] = <<3>>
             /\ pred_ids[t] = <<3, 3, 0, 5, 5, 5, 0, 7>> => collapsed[t] = <<3, 5, 7>>

\* [3,0,3] has been collapsed to [3,3]: the blank between the two has reset prev
C16_Witness ==
    \E t \in Threads :
       /\ pc[t] = "send_ok"
       /\ pred_ids[t] = <<3, 0, 3>>
       /\ collapsed[t] = <<3, 3>>

\* Tokens the filter drops; an id the vocabulary does not hold has the token "".
DroppedTokens == {"", "<pad>", "<s>", "</s>", "<unk>", "|"}

\* collapsing and filtering leave nothing of ids
EmptyResult(ids) ==
    \A i \in KeptPositions(ids, pad_token_id) : id_to_token(ids[i]) \in DroppedTokens

C17_Step(t) ==
    /\ pc[t] = "decode" /\ pc'[t] # "decode" /\ EmptyResult(pred_ids[t])
          => /\ pc'[t] = "send_err"
             /\ exc'[t] = "empty_phones"
             /\ phones'[t] = <<>>
    /\ pc[t] = "decode" /\ pc'[t] # "decode" /\ ~EmptyResult(pred_ids[t])
          => pc'[t] = "send_ok" /\ phones'[t] # <<>>
    /\ pc[t] = "send_err" /\ pc'[t] # "send_err" /\ exc[t] = "empty_phones"
          => resp'[t] \in {Response(400, "empty_phones"), NoResp}
    /\ resp'[t] # resp[t] /\ resp'[t].status = 200 /\ req[t].path = "/phonemize"
          => phones'[t] # <<>>

\* C17: when collapsing and filtering (blank, ids without a token, <pad>, <s>,
\* </s>, <unk>, |) leave no token, decoding raises, the handler answers 400 (or
\* fails to write it) and never 200; a 200 always carries a non-empty phones list.
C17_EmptyResultIsAnError == [][\A t \in Threads : C17_Step(t)]_vars

\* ids that are neither blank nor repeated, yet all dropped by the filter, have
\* made decoding raise
C17_Witness ==
    \E t \in Threads :
       /\ pc[t] = "send_err"
       /\ exc[t] = "empty_phones"
       /\ pred_ids[t] = <<9, 4, 4, 6>>
       /\ collapsed[t] = <<9, 4, 6>>
       /\ phones[t] = <<>>

\* x holds no blank b and no two equal adjacent ids
AlreadyCollapsed(x, b) ==
    /\ \A i \in 1..Len(x) : x[i] # b
    /\ \A i \in 2..Len(x) : x[i] # x[i - 1]

\* C18: for every id sequence x with no blank and no two equal adjacent ids,
\* ctc_collapse(x, b) = x, so collapsing the result again changes nothing; the
\* decode step leaves such pred_ids as they are.
C18_IdempotentOnCollapsed ==
    \A t \in Threads :
       /\ \A b \in BlankIds :
             AlreadyCollapsed(pred_ids[t], b)
                => /\ ctc_collapse(pred_ids[t], b) = pred_ids[t]
                   /\ ctc_collapse(ctc_collapse(pred_ids[t], b), b)
                         = ctc_collapse(pred_ids[t], b)
       /\ Decoded(t) /\ AlreadyCollapsed(pred_ids[t], pad_token_id)
             => /\ collapsed[t] = pred_ids[t]
                /\ ctc_collapse(collapsed[t], pad_token_id) = collapsed[t]

\* a blank-free sequence without adjacent repeats has been decoded unchanged
C18_Witness ==
    \E t \in Threads :
       /\ pc[t] = "send_ok"
       /\ pred_ids[t] = <<3, 1, 3, 2>>
       /\ collapsed[t] = <<3, 1, 3, 2>>

\* Callers that have entered the wait queue and not returned from acquire_slot.
Queuers == {t \in Threads : pc[t] \in QueuedPcs}

\* C19: in every reachable state active is the number of requests granted a
\* slot and not yet through release_slot, and queued is the number of callers
\* that entered the wait queue and have not returned from acquire_slot.
C19_CountersAreExact ==
    /\ active = Cardinality(Holders)
    /\ queued = Cardinality(Queuers)

\* one caller has left the queue by timeout and is done, another holds the slot
\* it was waiting for, a third is in the queue
C19_Witness ==
    /\ \E t \in Threads : pc[t] = "done" /\ acqExit[t] = "timeout"
    /\ active = 1
    /\ queued = 1

\* thread t returns from acquire_slot in this step
C20_Returns(t) == pc[t] # "acq_ret" /\ pc'[t] = "acq_ret"

C20_Step(t) ==
    /\ C20_Returns(t) /\ ret'[t] = "False"
          => /\ active = max_inflight
             /\ active' = active
             /\ acqExit'[t] \in {"busy", "timeout"}
    /\ pc[t] = "recheck" /\ pc'[t] # "recheck" /\ active < max_inflight
          => /\ C20_Returns(t)
             /\ ret'[t] = "True"
             /\ active' = active + 1

\* C20: whenever acquire_slot returns False (Busy or Timeout) every slot is
\* taken, active = max_inflight; a waiter that re-checks while a slot is free
\* takes it, also when its time is up.
C20_NoRejectionWhileFree == [][\A t \in Threads : C20_Step(t)]_vars

\* a waiter whose time is up re-checks with a slot free
C20_Witness ==
    \E t \in Threads :
       /\ pc[t] = "recheck"
       /\ remaining[t] = 0
       /\ active < max_inflight

\* Queued callers that are awake: notified or timed out and waiting to get the
\* lock back, or holding it and about to test the slots.
AwakePcs == {"wake_lock", "recheck"}
Awake == {t \in Threads : pc[t] \in AwakePcs}

\* a slot is free and some caller is in the wait queue
FreeAndQueued == active < max_inflight /\ Queuers # {}

C21_SomeQueuedAwake == FreeAndQueued => Awake # {}

\* no thread can still arrive at acquire_slot's first test
NoArrival == \A t \in Threads : pc[t] \notin {"idle", "acq_lock", "acq_check", "acq_ret"}

\* a caller has just been granted a slot after waiting in the queue
GrantedAfterWait ==
    \E t \in Threads : pc[t] = "acq_ret" /\ ret[t] = "True" /\ acqExit[t] = "wait"

\* C21: whenever a slot is free and a caller is in the wait queue, some queued
\* caller is awake (notified or timed out, and about to re-check under the
\* lock); and when no caller can arrive any more, a queued caller is granted
\* the free slot.
C21_NoLostWakeup ==
    /\ []C21_SomeQueuedAwake
    /\ (FreeAndQueued /\ NoArrival) ~> GrantedAfterWait

\* the notification of a release went to a caller whose wait had timed out,
\* while the other queued caller sleeps on with time left
C21_Witness ==
    /\ FreeAndQueued
    /\ NoArrival
    /\ \E w, u \in Threads :
          /\ pc[w] = "wake_lock" /\ remaining[w] = 0
          /\ pc[u] = "waiting" /\ remaining[u] > 0 /\ u \in waiters

\* No request is in progress: every thread is still idle or has finished.
Quiescent == \A t \in Threads : pc[t] \in {"idle", "done"}

\* thread t makes the first test of acquire_slot while all others are at rest
C22_LaterRequest(t) ==
    /\ pc[t] = "acq_check"
    /\ pc'[t] # "acq_check"
    /\ \A u \in Threads \ {t} : pc[u] \in {"idle", "done"}
    /\ \E u \in Threads \ {t} : pc[u] = "done"

\* C22: once every request taken so far has completed, whatever its outcome,
\* active = 0 and queued = 0, nobody holds the lock or is on the waiter list,
\* and a request that comes then is granted a slot at acquire_slot's first test.
C22_Quiescence ==
    /\ [](Quiescent => /\ active = 0
                       /\ queued = 0
                       /\ lock = NoThread
                       /\ waiters = {})
    /\ [][\A t \in Threads :
             C22_LaterRequest(t)
                => /\ active = 0 /\ queued = 0
                   /\ pc'[t] = "acq_ret"
                   /\ ret'[t] = "True"
                   /\ acqExit'[t] = "now"]_vars

\* three requests are over: one answered 200, one turned away after its wait
\* timed out, one failed in the pipeline and was answered 400
C22_Witness ==
    /\ \A t \in Threads : pc[t] = "done"
    /\ \E t \in Threads : resp[t] = Response(200, "none") /\ releases[t] = 1
    /\ \E t \in Threads : resp[t] = Overload /\ acqExit[t] = "timeout"
    /\ \E t \in Threads : resp[t].status = 400 /\ releases[t] = 1
    /\ active = 0
    /\ queued = 0

=============================================================================
